---- MODULE Spec2Model ----
(***************************************************************************)
(* Fan RPM monitor (src/disk_monitor/disk_monitor.ino): the interrupt      *)
(* handler fanISR (tick capture), setup() and loop() (interval estimator), *)
(* and the interrupt mask that orders them.                                *)
(*                                                                         *)
(* Execution model (ATmega32U4): one main program (setup, then loop()      *)
(* forever) and one external interrupt.  An edge on fanPin sets the        *)
(* interrupt flag (pending); the handler runs when the flag is set, the    *)
(* interrupt is attached and interrupts are enabled, before the main       *)
(* program executes anything else, and runs to completion (interrupts are  *)
(* disabled inside a handler).  noInterrupts()/interrupts() clear and set  *)
(* the global enable bit; an edge arriving meanwhile stays latched.        *)
(*                                                                         *)
(* Time: micros() is a Width-bit counter.  The model keeps the true time   *)
(* elapsed since boot (time) and the counter value at boot (boot); the     *)
(* program only ever sees Micros.  Durations are scaled: the order         *)
(* bouncePeriod < interval < 2^Width of the source is kept, the ratios are *)
(* not.  A run lasts at most MaxRun < 2^Width time units, the operating    *)
(* window the source states (lines 29-31); setup() takes at most MaxSetup  *)
(* of them from clearing the interrupt flag to entering loop(), the time   *)
(* it waited before being part of the counter value at boot.               *)
(*                                                                         *)
(* Specifications: Spec (edges at any time), SpecFair (Spec under the      *)
(* scheduling the hardware gives), SpecPeriodic (the fan at constant       *)
(* speed) and SpecScenario (one second of the fan at 1000 RPM, in units of *)
(* 5 ms).                                                                  *)
(*                                                                         *)
(* Not modelled: the LED (pin, ledTicks, ledOffTime), the DHT22 sensor and *)
(* the serial text (output only); rounding of the floating-point           *)
(* arithmetic                                                              *)
(* (avgTickPeriod, cycles and RPM are exact fractions <<num, den>>; a zero *)
(* denominator stands for the inf/NaN of a division by 0.0); tearing of a  *)
(* 32-bit store by the interrupt (stores are word-atomic).                 *)
(***************************************************************************)
EXTENDS Integers, Sequences, FiniteSets, TLC

\* ---------------------------------------------------------------- constants

\* uint32_t, scaled to 8 bits
Width == 8
Mod == 2 ^ Width

\* the 1e6 of "interval = 1 * 1e6" and of the RPM formula, scaled
UsPerSecond == 4
interval == 1 * UsPerSecond
bouncePeriod == 2
intervalsPerRev == 4
minTicksForExtrapolation == 2

\* longest run, in time units since boot
MaxRun == 10
\* longest time setup() takes from clearing the flag to entering loop()
MaxSetup == 1
\* micros() when setup() reaches the interrupt set-up: a few units after reset
\* (setup() has opened the serial port by then), or close enough to 2^Width for
\* the counter to wrap
BootClocks == {bouncePeriod + 1, Mod - 6}

VARIABLES
  pc,              \* position of the main program
  intEnabled,      \* global interrupt enable bit
  pending,         \* external interrupt flag (EIFR): an edge is latched
  boot, time,      \* micros() at boot; true time since boot
  period,          \* period of the fanPin signal; 0: edges arrive at any time
  tmp,             \* the value of micros() in setup()'s assignment chain
  start, end,      \* interval boundaries
  ISRTicks, firstTickDelay, lastTick,       \* the shared accumulator
  now, ticks, preTick, postTick,            \* loop() locals
  avgTickPeriod, cycles, RPM,
  \* history variables (not in the program)
  accepted,        \* edges accepted by fanISR since start-up
  reported,        \* sum of the ticks of all emitted intervals
  results, loops,  \* intervals emitted; loop() iterations completed
  resEnd,          \* end of the last emitted interval
  nowTime, endTime,              \* true time at which now (tmp in setup) / end was read
  lastAcceptTime,  \* true time of the last accepted edge, -1 if none
  lastTickTime,    \* true time at which the value of lastTick was read
  firstAcceptTime, \* true time of the edge that took ISRTicks from 0 to 1
  closedTicked,    \* the last closed interval counted one tick or more
  deferred,        \* the edge latched inside the closing critical section, if any:
                   \* "no", "latched", then "counted" or "bounced" once handled
  snap,            \* the accumulator when the closing critical section began
  preRaw, postRaw, \* preTick and postTick as snapshot, before clamping
  divEvaluated     \* the division by ticks-1 was evaluated this iteration

shared  == <<ISRTicks, firstTickDelay, lastTick>>
edges   == <<start, end>>
locals  == <<now, ticks, preTick, postTick, avgTickPeriod, cycles, RPM>>
clock   == <<boot, time>>
history == <<accepted, reported, results, loops, resEnd,
             nowTime, endTime, lastAcceptTime, lastTickTime, firstAcceptTime,
             closedTicked, deferred, snap, preRaw, postRaw, divEvaluated>>
vars    == <<pc, intEnabled, pending, clock, period, tmp, edges, shared, locals,
             history>>

\* ------------------------------------------------------------------ helpers

\* micros(): the wrapping counter
Micros == (boot + time) % Mod

\* micros() at the true time t
Stamp(t) == (boot + t) % Mod

Sub_NoWrap(a, b) == a - b

\* unsigned subtraction and addition of Width-bit values
Sub(a, b) == (a - b + 2 * Mod) % Mod
Add(a, b) == (a + b) % Mod

\* a double as an exact fraction
Frac(n, d) == <<n, d>>
Zero == Frac(0, 1)
IsZero(f) == f[1] = 0 /\ f[2] # 0

\* the statements between noInterrupts() and interrupts() that close an interval
CloseSection == {"closeEnd", "closeTicks", "closePre", "closePost",
                 "closeReset", "closeUnmask"}

SetupPcs == {"clearFlag", "attach", "setupMicros", "setupEnd", "setupStart",
             "setupLastTick"}

Attached == pc \notin {"clearFlag", "attach"}

\* the handler is entered: flag set, interrupt attached, interrupts enabled
ISRReady == pending /\ Attached /\ intEnabled

\* the main program executes its next statement
Main(at) == pc = at /\ ~ISRReady

\* ------------------------------------------------------------ initial state

\* Globals are zero-initialised; setup() is about to clear the interrupt flag.
\* (A zero in end or lastTick is the counter value of the time -boot.)
Reset ==
  /\ pc = "clearFlag"
  /\ intEnabled = TRUE
  /\ pending \in BOOLEAN
  /\ boot \in BootClocks
  /\ time = 0
  /\ tmp = 0
  /\ start = 0 /\ end = 0
  /\ ISRTicks = 0 /\ firstTickDelay = 0 /\ lastTick = 0
  /\ now = 0 /\ ticks = 0 /\ preTick = 0 /\ postTick = 0
  /\ avgTickPeriod = Zero /\ cycles = Zero /\ RPM = Zero
  /\ accepted = 0 /\ reported = 0 /\ results = 0 /\ loops = 0
  /\ resEnd = 0
  /\ nowTime = 0 /\ endTime = -boot
  /\ lastAcceptTime = -1
  /\ lastTickTime = -boot
  /\ firstAcceptTime = -1
  /\ closedTicked = FALSE
  /\ deferred = "no"
  /\ snap = <<0, 0, 0>>
  /\ preRaw = 0 /\ postRaw = 0
  /\ divEvaluated = FALSE

\* fanPin changes at any time
Init == Reset /\ period = 0

\* -------------------------------------------------------------- environment

\* The clock advances by one unit.
Tick ==
  /\ time < MaxRun
  /\ pc \in SetupPcs => time < MaxSetup
  /\ time' = time + 1
  /\ UNCHANGED <<pc, intEnabled, pending, boot, period, tmp, edges, shared, locals, history>>

\* A transition of fanPin sets the interrupt flag; the flag holds one edge.
Edge ==
  /\ pending' = TRUE
  /\ deferred' = IF ~intEnabled /\ pc \in CloseSection THEN "latched" ELSE deferred
  /\ UNCHANGED <<pc, intEnabled, clock, period, tmp, edges, shared, locals,
                 accepted, reported, results, loops, resEnd,
                 nowTime, endTime, lastAcceptTime, lastTickTime,
                 firstAcceptTime, snap, preRaw, postRaw,
                 divEvaluated,
                 closedTicked>>

\* ------------------------------------------------------------------- fanISR

\* now - lastTick < bouncePeriod
Bounced(n) == Sub(n, lastTick) < bouncePeriod

FirstTickDelay_FromStart(n) == Sub(n, start)

\* firstTickDelay = now - end
FirstTickDelay(n) == Sub(n, end)

fanISR_WritesEnd ==
  /\ ISRReady
  /\ pending' = FALSE
  /\ deferred' = IF deferred # "latched" THEN deferred
                 ELSE IF Bounced(Micros) THEN "bounced" ELSE "counted"
  /\ LET n == Micros IN
       IF Bounced(n)
       THEN UNCHANGED <<shared, end, accepted, lastAcceptTime, lastTickTime,
                        firstAcceptTime>>
       ELSE /\ firstTickDelay' = IF ISRTicks = 0 THEN 0 ELSE firstTickDelay
            /\ end' = IF ISRTicks = 0 THEN n ELSE end
            /\ ISRTicks' = Add(ISRTicks, 1)
            /\ lastTick' = n
            /\ accepted' = accepted + 1
            /\ lastAcceptTime' = time
            /\ lastTickTime' = time
            /\ firstAcceptTime' = IF ISRTicks = 0 THEN time ELSE firstAcceptTime
  /\ UNCHANGED <<pc, intEnabled, clock, period, tmp, start, locals,
                 reported, results, loops, resEnd,
                 nowTime, endTime, snap, preRaw, postRaw, divEvaluated,
                 closedTicked>>

fanISR_BounceRestarts ==
  /\ ISRReady
  /\ pending' = FALSE
  /\ deferred' = IF deferred # "latched" THEN deferred
                 ELSE IF Bounced(Micros) THEN "bounced" ELSE "counted"
  /\ LET n == Micros IN
       IF Bounced(n)
       THEN /\ lastTick' = n
            /\ lastTickTime' = time
            /\ UNCHANGED <<ISRTicks, firstTickDelay, accepted, lastAcceptTime,
                           firstAcceptTime>>
       ELSE /\ firstTickDelay' = IF ISRTicks = 0 THEN FirstTickDelay(n)
                                                 ELSE firstTickDelay
            /\ ISRTicks' = Add(ISRTicks, 1)
            /\ lastTick' = n
            /\ accepted' = accepted + 1
            /\ lastAcceptTime' = time
            /\ lastTickTime' = time
            /\ firstAcceptTime' = IF ISRTicks = 0 THEN time ELSE firstAcceptTime
  /\ UNCHANGED <<pc, intEnabled, clock, period, tmp, edges, locals,
                 reported, results, loops, resEnd,
                 nowTime, endTime, snap, preRaw, postRaw, divEvaluated,
                 closedTicked>>

\* void fanISR()
fanISR ==
  /\ ISRReady
  /\ pending' = FALSE
  /\ deferred' = IF deferred # "latched" THEN deferred
                 ELSE IF Bounced(Micros) THEN "bounced" ELSE "counted"
  /\ LET n == Micros IN
       IF Bounced(n)
       THEN UNCHANGED <<shared, accepted, lastAcceptTime, lastTickTime,
                        firstAcceptTime>>
       ELSE /\ firstTickDelay' = IF ISRTicks = 0 THEN FirstTickDelay(n)
                                                 ELSE firstTickDelay
            /\ ISRTicks' = Add(ISRTicks, 1)
            /\ lastTick' = n
            /\ accepted' = accepted + 1
            /\ lastAcceptTime' = time
            /\ lastTickTime' = time
            /\ firstAcceptTime' = IF ISRTicks = 0 THEN time ELSE firstAcceptTime
  /\ UNCHANGED <<pc, intEnabled, clock, period, tmp, edges, locals,
                 reported, results, loops, resEnd,
                 nowTime, endTime, snap, preRaw, postRaw, divEvaluated,
                 closedTicked>>

\* -------------------------------------------------------------------- setup

\* EIFR = bit(...): clear a flag set before the handler is attached
SetupClearFlag ==
  /\ Main("clearFlag")
  /\ pending' = FALSE
  /\ pc' = "attach"
  /\ UNCHANGED <<intEnabled, clock, period, tmp, edges, shared, locals, history>>

\* attachInterrupt(..., fanISR, CHANGE)
SetupAttach ==
  /\ Main("attach")
  /\ pc' = "setupMicros"
  /\ UNCHANGED <<intEnabled, pending, clock, period, tmp, edges, shared, locals, history>>

\* lastTick = start = end = micros(): the call, then the three stores,
\* right to left, with interrupts enabled throughout
SetupMicros ==
  /\ Main("setupMicros")
  /\ tmp' = Micros
  /\ nowTime' = time
  /\ pc' = "setupEnd"
  /\ UNCHANGED <<intEnabled, pending, clock, period, edges, shared, locals,
                 accepted, reported, results, loops, resEnd,
                 endTime, lastAcceptTime, lastTickTime, firstAcceptTime,
                 deferred, snap, preRaw, postRaw, divEvaluated,
                 closedTicked>>

SetupEnd ==
  /\ Main("setupEnd")
  /\ end' = tmp
  /\ endTime' = nowTime
  /\ pc' = "setupStart"
  /\ UNCHANGED <<intEnabled, pending, clock, period, tmp, start, shared, locals,
                 accepted, reported, results, loops, resEnd,
                 nowTime, lastAcceptTime, lastTickTime,
                 firstAcceptTime, deferred, snap, preRaw, postRaw,
                 divEvaluated,
                 closedTicked>>

SetupStart ==
  /\ Main("setupStart")
  /\ start' = tmp
  /\ pc' = "setupLastTick"
  /\ UNCHANGED <<intEnabled, pending, clock, period, tmp, end, shared, locals, history>>

SetupLastTick ==
  /\ Main("setupLastTick")
  /\ lastTick' = tmp
  /\ lastTickTime' = nowTime
  /\ pc' = "loop"
  /\ UNCHANGED <<intEnabled, pending, clock, period, tmp, edges, ISRTicks,
                 firstTickDelay, locals,
                 accepted, reported, results, loops, resEnd,
                 nowTime, endTime, lastAcceptTime, firstAcceptTime,
                 deferred, snap, preRaw, postRaw, divEvaluated,
                 closedTicked>>

\* --------------------------------------------------------------------- loop

\* loop() is entered: its locals are initialised (preTick, postTick and now
\* are indeterminate until assigned; they are never read before)
LoopEntry ==
  /\ Main("loop")
  /\ ticks' = 0 /\ preTick' = 0 /\ postTick' = 0
  /\ avgTickPeriod' = Zero /\ cycles' = Zero /\ RPM' = Zero
  /\ divEvaluated' = FALSE
  /\ preRaw' = 0 /\ postRaw' = 0
  /\ pc' = "while"
  /\ UNCHANGED <<intEnabled, pending, clock, period, tmp, edges, shared, now,
                 accepted, reported, results, loops, resEnd,
                 nowTime, endTime, lastAcceptTime, lastTickTime,
                 firstAcceptTime, deferred, snap,
                 closedTicked>>

\* (now = micros()) - start < interval
StillWaiting(n) == Sub(n, start) < interval

WhileTest_NoRead ==
  /\ Main("while")
  /\ pc' = IF StillWaiting(now) THEN "bodyMask" ELSE "closeMask"
  /\ UNCHANGED <<intEnabled, pending, clock, period, tmp, edges, shared, locals,
                 history>>

\* while ( (now = micros()) - start < interval )
WhileTest ==
  /\ Main("while")
  /\ now' = Micros
  /\ nowTime' = time
  /\ pc' = IF StillWaiting(Micros) THEN "bodyMask" ELSE "closeMask"
  /\ UNCHANGED <<intEnabled, pending, clock, period, tmp, edges, shared,
                 ticks, preTick, postTick, avgTickPeriod, cycles, RPM,
                 accepted, reported, results, loops, resEnd,
                 endTime, lastAcceptTime, lastTickTime,
                 firstAcceptTime, deferred, snap, preRaw, postRaw,
                 divEvaluated,
                 closedTicked>>

\* noInterrupts() in the loop body
BodyMask ==
  /\ Main("bodyMask")
  /\ intEnabled' = FALSE
  /\ pc' = "bodyRead"
  /\ UNCHANGED <<pending, clock, period, tmp, edges, shared, locals, history>>

BodyRead_Resets ==
  /\ Main("bodyRead")
  /\ ticks' = ISRTicks
  /\ ISRTicks' = 0
  /\ pc' = "bodyUnmask"
  /\ UNCHANGED <<intEnabled, pending, clock, period, tmp, edges, firstTickDelay,
                 lastTick, now, preTick, postTick, avgTickPeriod, cycles, RPM,
                 history>>

\* ticks = ISRTicks
BodyRead ==
  /\ Main("bodyRead")
  /\ ticks' = ISRTicks
  /\ pc' = "bodyUnmask"
  /\ UNCHANGED <<intEnabled, pending, clock, period, tmp, edges, shared,
                 now, preTick, postTick, avgTickPeriod, cycles, RPM, history>>

\* interrupts() in the loop body, and back to the loop test
BodyUnmask ==
  /\ Main("bodyUnmask")
  /\ intEnabled' = TRUE
  /\ pc' = "while"
  /\ UNCHANGED <<pending, clock, period, tmp, edges, shared, locals, history>>

CloseMask_NoMask ==
  /\ Main("closeMask")
  /\ snap' = <<ISRTicks, firstTickDelay, lastTick>>
  /\ pc' = "closeEnd"
  /\ UNCHANGED <<intEnabled, pending, clock, period, tmp, edges, shared, locals,
                 accepted, reported, results, loops, resEnd,
                 nowTime, endTime, lastAcceptTime, lastTickTime,
                 firstAcceptTime, deferred, preRaw, postRaw,
                 divEvaluated,
                 closedTicked>>

\* noInterrupts() closing the interval
CloseMask ==
  /\ Main("closeMask")
  /\ intEnabled' = FALSE
  /\ snap' = <<ISRTicks, firstTickDelay, lastTick>>
  /\ pc' = "closeEnd"
  /\ UNCHANGED <<pending, clock, period, tmp, edges, shared, locals,
                 accepted, reported, results, loops, resEnd,
                 nowTime, endTime, lastAcceptTime, lastTickTime,
                 firstAcceptTime, deferred, preRaw, postRaw,
                 divEvaluated,
                 closedTicked>>

CloseEnd_Skipped ==
  /\ Main("closeEnd")
  /\ endTime' = nowTime
  /\ pc' = "closeTicks"
  /\ UNCHANGED <<intEnabled, pending, clock, period, tmp, edges, shared, locals,
                 accepted, reported, results, loops, resEnd,
                 nowTime, lastAcceptTime, lastTickTime,
                 firstAcceptTime, deferred, snap, preRaw, postRaw,
                 divEvaluated,
                 closedTicked>>

\* end = now
CloseEnd ==
  /\ Main("closeEnd")
  /\ end' = now
  /\ endTime' = nowTime
  /\ pc' = "closeTicks"
  /\ UNCHANGED <<intEnabled, pending, clock, period, tmp, start, shared, locals,
                 accepted, reported, results, loops, resEnd,
                 nowTime, lastAcceptTime, lastTickTime,
                 firstAcceptTime, deferred, snap, preRaw, postRaw,
                 divEvaluated,
                 closedTicked>>

\* ticks = ISRTicks
CloseTicks ==
  /\ Main("closeTicks")
  /\ ticks' = ISRTicks
  /\ closedTicked' = (ISRTicks >= 1)
  /\ pc' = "closePre"
  /\ UNCHANGED <<intEnabled, pending, clock, period, tmp, edges, shared,
                 now, preTick, postTick, avgTickPeriod, cycles, RPM,
                 accepted, reported, results, loops, resEnd,
                 nowTime, endTime, lastAcceptTime, lastTickTime,
                 firstAcceptTime, deferred, snap, preRaw, postRaw,
                 divEvaluated>>

\* preTick = firstTickDelay
ClosePre ==
  /\ Main("closePre")
  /\ preTick' = firstTickDelay
  /\ preRaw' = firstTickDelay
  /\ pc' = "closePost"
  /\ UNCHANGED <<intEnabled, pending, clock, period, tmp, edges, shared,
                 now, ticks, postTick, avgTickPeriod, cycles, RPM,
                 accepted, reported, results, loops, resEnd,
                 nowTime, endTime, lastAcceptTime, lastTickTime,
                 firstAcceptTime, deferred, snap, postRaw,
                 divEvaluated,
                 closedTicked>>

\* postTick = end - lastTick
ClosePost ==
  /\ Main("closePost")
  /\ postTick' = Sub(end, lastTick)
  /\ postRaw' = Sub(end, lastTick)
  /\ pc' = "closeReset"
  /\ UNCHANGED <<intEnabled, pending, clock, period, tmp, edges, shared,
                 now, ticks, preTick, avgTickPeriod, cycles, RPM,
                 accepted, reported, results, loops, resEnd,
                 nowTime, endTime, lastAcceptTime, lastTickTime,
                 firstAcceptTime, deferred, snap, preRaw,
                 divEvaluated,
                 closedTicked>>

CloseReset_NoReset ==
  /\ Main("closeReset")
  /\ pc' = "closeUnmask"
  /\ UNCHANGED <<intEnabled, pending, clock, period, tmp, edges, shared, locals, history>>

CloseReset_ZeroesDelay ==
  /\ Main("closeReset")
  /\ ISRTicks' = 0
  /\ firstTickDelay' = 0
  /\ pc' = "closeUnmask"
  /\ UNCHANGED <<intEnabled, pending, clock, period, tmp, edges, lastTick, locals, history>>

\* ISRTicks = 0
CloseReset ==
  /\ Main("closeReset")
  /\ ISRTicks' = 0
  /\ pc' = "closeUnmask"
  /\ UNCHANGED <<intEnabled, pending, clock, period, tmp, edges, firstTickDelay, lastTick,
                 locals, history>>

\* interrupts() ending the critical section
CloseUnmask ==
  /\ Main("closeUnmask")
  /\ intEnabled' = TRUE
  /\ pc' = "compute"
  /\ UNCHANGED <<pending, clock, period, tmp, edges, shared, locals, history>>

ZeroedIfNoTicks_Skipped(t, p) == p

\* if (!ticks) { preTick = 0; postTick = 0; }
ZeroedIfNoTicks(t, p) == IF t = 0 THEN 0 ELSE p

\* if (ticks >= minTicksForExtrapolation)
Extrapolates(t) == t >= minTicksForExtrapolation

\* avgTickPeriod = (end - start - preTick - postTick) / (double) (ticks-1)
AvgTickPeriod(t, pre, post) ==
  Frac(Sub(Sub(Sub(end, start), pre), post), Sub(t, 1))

\* p > avgTickPeriod ? avgTickPeriod : p, stored in a uint32_t (truncated)
Clamp(p, avg) == IF p * avg[2] > avg[1] THEN avg[1] \div avg[2] ELSE p

Extrapolated_WholeTicks(t, pre, post, avg) == Frac(t, 1)

\* cycles = ticks-1 + (preTick + postTick) / avgTickPeriod
Extrapolated(t, pre, post, avg) ==
  Frac(Sub(t, 1) * avg[1] + Add(pre, post) * avg[2], avg[1])

SingleTick_OffByOne(t) == Frac(t, 1)

\* cycles = ticks - 1  (one tick)
SingleTick(t) == Frac(Sub(t, 1), 1)

PerRev_Multiplies(c) == Frac(c[1] * intervalsPerRev, c[2])

\* cycles /= intervalsPerRev
PerRev(c) == Frac(c[1], c[2] * intervalsPerRev)

\* RPM = cycles * 60 * 1e6 / interval
Rpm(c) == Frac(c[1] * 60 * UsPerSecond, c[2] * interval)

\* From "if (!ticks)" to the RPM: arithmetic on the locals, start and end
Compute ==
  /\ Main("compute")
  /\ LET pre0  == ZeroedIfNoTicks(ticks, preTick)
         post0 == ZeroedIfNoTicks(ticks, postTick)
         avg   == AvgTickPeriod(ticks, pre0, post0)
         pre1  == Clamp(pre0, avg)
         post1 == Clamp(post0, avg)
     IN IF Extrapolates(ticks)
        THEN /\ avgTickPeriod' = avg
             /\ divEvaluated' = TRUE
             /\ preTick' = pre1
             /\ postTick' = post1
             /\ cycles' = PerRev(Extrapolated(ticks, pre1, post1, avg))
             /\ RPM' = Rpm(PerRev(Extrapolated(ticks, pre1, post1, avg)))
        ELSE /\ UNCHANGED <<avgTickPeriod, divEvaluated>>
             /\ preTick' = pre0
             /\ postTick' = post0
             /\ cycles' = PerRev(IF ticks >= 1 THEN SingleTick(ticks) ELSE Zero)
             /\ RPM' = Rpm(PerRev(IF ticks >= 1 THEN SingleTick(ticks) ELSE Zero))
  /\ snap' = <<0, 0, 0>>
  /\ deferred' = "no"
  /\ pc' = "emit"
  /\ UNCHANGED <<intEnabled, pending, clock, period, tmp, edges, shared, now, ticks,
                 accepted, reported, results, loops, resEnd,
                 nowTime, endTime, lastAcceptTime, lastTickTime,
                 firstAcceptTime, preRaw, postRaw,
                 closedTicked>>

\* The sensor is read and the result is printed: one IntervalResult
Emit ==
  /\ Main("emit")
  /\ results' = results + 1
  /\ reported' = reported + ticks
  /\ resEnd' = end
  /\ pc' = "finish"
  /\ UNCHANGED <<intEnabled, pending, clock, period, tmp, edges, shared, locals,
                 accepted, loops, nowTime, endTime, lastAcceptTime, lastTickTime,
                 firstAcceptTime, deferred, snap,
                 preRaw, postRaw, divEvaluated,
                 closedTicked>>

Finish_FromClock ==
  /\ Main("finish")
  /\ start' = Micros
  /\ loops' = loops + 1
  /\ pc' = "loop"
  /\ UNCHANGED <<intEnabled, pending, clock, period, tmp, end, shared, locals,
                 accepted, reported, results, resEnd,
                 nowTime, endTime, lastAcceptTime, lastTickTime,
                 firstAcceptTime, deferred, snap, preRaw, postRaw,
                 divEvaluated,
                 closedTicked>>

\* start = end, and loop() returns
Finish ==
  /\ Main("finish")
  /\ start' = end
  /\ loops' = loops + 1
  /\ pc' = "loop"
  /\ UNCHANGED <<intEnabled, pending, clock, period, tmp, end, shared, locals,
                 accepted, reported, results, resEnd,
                 nowTime, endTime, lastAcceptTime, lastTickTime,
                 firstAcceptTime, deferred, snap, preRaw, postRaw,
                 divEvaluated,
                 closedTicked>>

\* ------------------------------------------------------------ specification

\* setup(), then loop() forever
Program ==
  \/ SetupClearFlag \/ SetupAttach \/ SetupMicros
  \/ SetupEnd \/ SetupStart \/ SetupLastTick
  \/ LoopEntry \/ WhileTest
  \/ BodyMask \/ BodyRead \/ BodyUnmask
  \/ CloseMask \/ CloseEnd \/ CloseTicks \/ ClosePre \/ ClosePost
  \/ CloseReset \/ CloseUnmask
  \/ Compute \/ Emit \/ Finish

Next == Tick \/ Edge \/ fanISR \/ Program

Spec == Init /\ [][Next]_vars

\* longest run under the scheduling assumptions
MaxFairRun == 8

\* the counter is about to wrap: the exit test of the busy-wait has to see
\* through the wrap
InitFair == Init /\ boot > interval

FairTick == Tick /\ time < MaxFairRun

NextFair == FairTick \/ Edge \/ fanISR \/ Program

\* Scheduling: the clock keeps advancing (up to MaxFairRun); a raised
\* interrupt is served; and the main program keeps executing, since the
\* processor executes at least one instruction of the main program after every
\* return from an interrupt handler, however fast the edges arrive.
SpecFair ==
  /\ InitFair /\ [][NextFair]_vars
  /\ WF_vars(FairTick)
  /\ WF_vars(fanISR)
  /\ SF_vars(Program)

\* ---------------------------------------------------------- periodic signal

\* fanPin changes every period time units, at the exact multiples of period
\* (the fan at constant speed); period is bouncePeriod or more
Periods == {bouncePeriod, bouncePeriod + 1}

\* longest run with a periodic signal
MaxPeriodicRun == 14

InitPeriodic == Reset /\ period \in Periods /\ ~pending

\* The clock advances by one unit and, at a multiple of period, fanPin changes.
\* The handler has served the previous edge first, so that every edge is
\* timestamped at its own time.
PeriodicTick ==
  /\ period > 0
  /\ ~pending
  /\ time < MaxPeriodicRun
  /\ pc \in SetupPcs => time < MaxSetup
  /\ time' = time + 1
  /\ pending' = ((time + 1) % period = 0)
  /\ deferred' = IF pending' /\ ~intEnabled /\ pc \in CloseSection
                 THEN "latched" ELSE deferred
  /\ UNCHANGED <<pc, intEnabled, boot, period, tmp, edges, shared, locals,
                 accepted, reported, results, loops, resEnd,
                 nowTime, endTime, lastAcceptTime, lastTickTime,
                 firstAcceptTime, snap, preRaw, postRaw, divEvaluated,
                 closedTicked>>

NextPeriodic == PeriodicTick \/ fanISR \/ Program

SpecPeriodic == InitPeriodic /\ [][NextPeriodic]_vars

\* ------------------------------------------------------- one second of fan

\* The fan at 1000 RPM (header comment): fanPin changes every 15 ms.  One
\* time unit is 5 ms here, and the print interval of one second is 200 units
\* (Rpm keeps the ratio 1e6 / interval = 1 under any unit).
ScenarioPeriod == 3
ScenarioInterval == 200
\* the interval starts 5 ms before an edge
ScenarioStart == ScenarioPeriod - 1
\* micros() at boot: 0, or such that the counter wraps inside the interval
ScenarioBoots == {0, Mod - ScenarioInterval \div 2}

\* A loop() iteration is polling; the previous interval was closed at
\* ScenarioStart and its last edge was accepted at time 0.
InitScenario ==
  /\ pc = "while"
  /\ intEnabled = TRUE
  /\ pending = FALSE
  /\ boot \in ScenarioBoots
  /\ time = ScenarioStart
  /\ period = ScenarioPeriod
  /\ tmp = Stamp(0)
  /\ start = Stamp(ScenarioStart) /\ end = Stamp(ScenarioStart)
  /\ ISRTicks = 0 /\ firstTickDelay = 0 /\ lastTick = Stamp(0)
  /\ now = Stamp(ScenarioStart)
  /\ ticks = 0 /\ preTick = 0 /\ postTick = 0
  /\ avgTickPeriod = Zero /\ cycles = Zero /\ RPM = Zero
  /\ accepted = 1 /\ reported = 1 /\ results = 1 /\ loops = 1
  /\ resEnd = Stamp(ScenarioStart)
  /\ nowTime = ScenarioStart /\ endTime = ScenarioStart
  /\ lastAcceptTime = 0 /\ lastTickTime = 0 /\ firstAcceptTime = 0
  /\ closedTicked = TRUE
  /\ deferred = "no"
  /\ snap = <<0, 0, 0>>
  /\ preRaw = 0 /\ postRaw = 0
  /\ divEvaluated = FALSE

\* The clock advances while loop() polls; fanPin changes at the multiples of
\* period and the handler timestamps each edge at its own time.
ScenarioTick ==
  /\ pc = "while"
  /\ ~pending
  /\ time < ScenarioStart + ScenarioInterval
  /\ time' = time + 1
  /\ pending' = ((time + 1) % period = 0)
  /\ UNCHANGED <<pc, intEnabled, boot, period, tmp, edges, shared, locals, history>>

\* The poll of the while test that closes the interval, at ScenarioInterval
\* exactly; the earlier polls only go round the loop body.
ScenarioPoll ==
  /\ Main("while")
  /\ time = ScenarioStart + ScenarioInterval
  /\ now' = Micros
  /\ nowTime' = time
  /\ pc' = "closeMask"
  /\ UNCHANGED <<intEnabled, pending, clock, period, tmp, edges, shared,
                 ticks, preTick, postTick, avgTickPeriod, cycles, RPM,
                 accepted, reported, results, loops, resEnd,
                 endTime, lastAcceptTime, lastTickTime, firstAcceptTime,
                 deferred, snap, preRaw, postRaw, divEvaluated,
                 closedTicked>>

NextScenario ==
  \/ ScenarioTick \/ fanISR \/ ScenarioPoll
  \/ CloseMask \/ CloseEnd \/ CloseTicks \/ ClosePre \/ ClosePost
  \/ CloseReset \/ CloseUnmask
  \/ Compute \/ Emit \/ Finish

SpecScenario == InitScenario /\ [][NextScenario]_vars

\* ------------------------------------------------------------------- claims

\* A step of fanISR: the handler clears the flag and the main program stays put.
ISRStep == pending /\ ~pending' /\ pc' = pc

\* A step in which fanISR accepts an edge.
AcceptStep == accepted' = accepted + 1

\* The ticks of a closed interval that is not emitted yet.
InFlight == IF pc \in {"closeUnmask", "compute", "emit"} THEN ticks ELSE 0

\* C1: no accepted tick is lost or double-counted: the ticks of all emitted
\* intervals, plus those of an interval closed but not yet emitted, plus the
\* current ISRTicks, equal the number of edges fanISR accepted since start-up.
C1_TicksConserved == reported + InFlight + ISRTicks = accepted

C1_Witness ==
  /\ results >= 2 /\ reported >= 2 /\ ISRTicks >= 1
  /\ pc = "while"

\* C2: the closing snapshot-and-reset is atomic with respect to fanISR: inside
\* the critical section interrupts are masked, no fanISR step happens, the
\* accumulator stays what it was when the section began, and at its end ticks,
\* preTick and postTick are those of that one accumulator state and ISRTicks is 0.
C2_SnapshotAtomic ==
  /\ [](pc \in CloseSection =>
          /\ ~intEnabled
          /\ lastTick = snap[3] /\ firstTickDelay = snap[2]
          /\ pc # "closeUnmask" => ISRTicks = snap[1]
          /\ pc = "closeUnmask" =>
               /\ ISRTicks = 0
               /\ ticks = snap[1]
               /\ preTick = snap[2]
               /\ postTick = Sub(end, snap[3]))
  /\ [][(pc \in CloseSection) => ~ISRStep]_vars

C2_Witness ==
  /\ pc = "closeUnmask" /\ pending
  /\ ticks >= 1 /\ preTick >= 1 /\ postTick >= 1

\* C3: an interval with ticks = 0 reports RPM, cycles, preTick and postTick all
\* 0, whatever firstTickDelay and lastTick were, and the division by ticks-1
\* is not evaluated.
C3_ZeroTicks ==
  (pc \in {"emit", "finish"} /\ ticks = 0) =>
    /\ IsZero(RPM) /\ IsZero(cycles)
    /\ preTick = 0 /\ postTick = 0
    /\ ~divEvaluated

C3_Witness ==
  /\ pc = "emit" /\ ticks = 0
  /\ preRaw >= 1 /\ postRaw >= 1

\* C4: an interval with ticks = 1 reports cycles = 0 and RPM = 0 whatever preTick
\* and postTick are, and the division by ticks-1 is not evaluated.
C4_SingleTick ==
  (pc \in {"emit", "finish"} /\ ticks = 1) =>
    /\ IsZero(cycles) /\ IsZero(RPM)
    /\ ~divEvaluated

C4_Witness ==
  /\ pc = "emit" /\ ticks = 1
  /\ preTick >= 1 /\ postTick >= 1

\* C5: debounce: fanISR accepts an edge iff now - lastTick >= bouncePeriod; two
\* consecutively accepted ticks are at least bouncePeriod apart, and an edge
\* handled less than bouncePeriod after the last accepted one is not counted.
C5_Debounce ==
  [][ISRStep =>
       /\ AcceptStep <=> Sub(Micros, lastTick) >= bouncePeriod
       /\ (AcceptStep /\ lastAcceptTime >= 0) => time - lastAcceptTime >= bouncePeriod
       /\ (lastAcceptTime >= 0 /\ time - lastAcceptTime < bouncePeriod)
            => accepted' = accepted]_vars

\* An interval has been closed (its snapshot-and-reset is done).
Closed == results >= 1 \/ pc \in {"compute", "emit"}

\* C6: after a snapshot-and-reset, the first tick accepted in the new interval
\* sets firstTickDelay to the time elapsed since the end recorded by that
\* snapshot; later ticks of the interval leave firstTickDelay unchanged.
C6_FirstTickFromReset ==
  [][(AcceptStep /\ Closed) =>
       IF ISRTicks = 0
       THEN /\ firstTickDelay' = time - endTime
            /\ firstTickDelay' = Sub(lastTick', end)
       ELSE firstTickDelay' = firstTickDelay]_vars

C6_Witness ==
  /\ results >= 1 /\ ISRTicks = 2
  /\ firstTickDelay >= 1
  /\ lastAcceptTime - endTime > firstTickDelay

\* C7: an edge arriving while the closing critical section masks interrupts
\* stays latched; fanISR runs for it right after interrupts(), before loop()
\* goes on, and (passing the debounce test like any edge) the tick is the first
\* of the new interval, with firstTickDelay measured from the new start.
C7_DeferredEdge ==
  /\ [](deferred = "latched" =>
          /\ pending
          /\ pc \in CloseSection \/ pc = "compute"
          /\ intEnabled => pc = "compute")
  /\ [][(deferred = "latched" /\ deferred' # "latched") =>
          /\ ISRStep
          /\ pc = "compute" /\ ISRTicks = 0 /\ end = now
          /\ IF Bounced(Micros)
             THEN UNCHANGED shared
             ELSE /\ AcceptStep
                  /\ ISRTicks' = 1
                  /\ lastTick' = Micros
                  /\ firstTickDelay' = time - nowTime]_vars

C7_Witness ==
  /\ deferred = "counted"
  /\ pc = "compute" /\ ~pending /\ ISRTicks = 1 /\ ticks >= 1
  /\ lastAcceptTime > endTime
  /\ firstTickDelay = lastAcceptTime - endTime

\* The interval being emitted was extrapolated: avgTickPeriod = n/d.
Extrapolating == pc = "emit" /\ Extrapolates(ticks)

\* A boundary partial period p exceeded avgTickPeriod and was clamped.
Exceeds(p) == p * avgTickPeriod[2] > avgTickPeriod[1]

\* The interval is a regular one: both partial periods lie inside it (its ticks
\* were all taken between start and end) and its ticks are bouncePeriod apart
\* or more on average.
Regular ==
  /\ preRaw + postRaw <= Sub(end, start)
  /\ avgTickPeriod[1] >= bouncePeriod * avgTickPeriod[2]

\* C8: clamp correctness as stated: a boundary partial period that exceeds
\* avgTickPeriod contributes exactly 1.0 to cycles, i.e. the clamped value
\* divided by avgTickPeriod is 1.
C8_ClampExactlyOne ==
  (Extrapolating /\ Regular) =>
    /\ Exceeds(preRaw)  => preTick  * avgTickPeriod[2] = avgTickPeriod[1]
    /\ Exceeds(postRaw) => postTick * avgTickPeriod[2] = avgTickPeriod[1]

\* What the code does instead: the clamped value is avgTickPeriod truncated to
\* an integer, so the contribution is at most 1.0 and is 1.0 only when
\* avgTickPeriod is a whole number.
C8_ClampTruncates ==
  (Extrapolating /\ avgTickPeriod[1] > 0) =>
    /\ Exceeds(preRaw)  => /\ preTick = avgTickPeriod[1] \div avgTickPeriod[2]
                           /\ preTick * avgTickPeriod[2] <= avgTickPeriod[1]
    /\ Exceeds(postRaw) => /\ postTick = avgTickPeriod[1] \div avgTickPeriod[2]
                           /\ postTick * avgTickPeriod[2] <= avgTickPeriod[1]
    /\ ~Exceeds(preRaw)  => preTick = preRaw
    /\ ~Exceeds(postRaw) => postTick = postRaw

\* C9: one IntervalResult per loop() iteration, back to back: every emitted
\* interval starts where the previous one ended, is at least interval long
\* (as the unsigned difference end - start), and the iteration ends with
\* start = end.
C9_BackToBack ==
  /\ [](results = loops + (IF pc = "finish" THEN 1 ELSE 0))
  /\ [][(results' = results + 1) =>
          /\ pc = "emit"
          /\ Sub(end, start) >= interval
          /\ results >= 1 => start = resEnd]_vars
  /\ [][(loops' = loops + 1) => (pc = "finish" /\ start' = end /\ end' = end)]_vars

C9_Witness ==
  /\ results >= 2 /\ pc = "finish"
  /\ start = resEnd - interval \/ start = resEnd - interval + Mod

\* C10 as stated: right after the closing critical section's reset, both
\* ISRTicks and firstTickDelay are zero.
C10_BothReset ==
  pc = "closeUnmask" => (ISRTicks = 0 /\ firstTickDelay = 0)

\* C10 as the code has it: the consumer resets ISRTicks only; firstTickDelay
\* keeps the value the snapshot read.
C10_OnlyTicksReset ==
  pc = "closeUnmask" =>
    /\ ISRTicks = 0
    /\ firstTickDelay = snap[2]
    /\ ticks >= 1 => firstTickDelay = preTick

C10_Witness ==
  /\ pc = "closeUnmask"
  /\ ticks >= 1 /\ ISRTicks = 0 /\ firstTickDelay >= 1

\* A step of the main program inside loop().
LoopStep == pc \notin SetupPcs /\ pc' # pc

\* C11, frame part: no step of loop() writes lastTick; only fanISR and the
\* initialisation in setup() do.
C11_LoopLeavesLastTick ==
  /\ [][LoopStep => lastTick' = lastTick]_vars
  /\ [][(lastTick' # lastTick) => (ISRStep \/ pc = "setupLastTick")]_vars

\* C11: loop() never writes lastTick, and in every state of loop(), once an
\* edge has been accepted, lastTick is the timestamp of the most recently
\* accepted edge (across interval closes and intervals without ticks).
C11_LastTickIsLastAccepted ==
  /\ C11_LoopLeavesLastTick
  /\ []((pc \notin SetupPcs /\ lastAcceptTime >= 0)
          => lastTick = Stamp(lastAcceptTime))

\* The true length of the interval being emitted.
Length == Sub(end, start)

\* An interval of a periodic signal, after the first one, that was extrapolated.
PeriodicInterval ==
  /\ pc = "emit" /\ period > 0 /\ results >= 1
  /\ Extrapolates(ticks)

\* Neither boundary partial period of the interval exceeded avgTickPeriod.
Unclamped == ~Exceeds(preRaw) /\ ~Exceeds(postRaw)

\* C12 as stated: for a periodic signal of period P the reported RPM is
\* 60e6 * T / P (T = intervalsPerRev), taken over the time the interval really
\* lasted.
C12_RpmTimesT ==
  (PeriodicInterval /\ Unclamped) =>
    /\ RPM[2] > 0
    /\ RPM[1] * period * interval = RPM[2] * 60 * UsPerSecond * intervalsPerRev * Length

\* C12 as the code has it: for a periodic signal of period P every extrapolated
\* interval after the first measures avgTickPeriod = P exactly and, when
\* neither partial period is clamped, reports
\* RPM = 60e6 / (T * P) * (end - start) / interval.
C12_RpmOverT ==
  PeriodicInterval =>
    /\ avgTickPeriod[2] > 0 /\ avgTickPeriod[1] = period * avgTickPeriod[2]
    /\ RPM[2] > 0
    /\ Unclamped =>
         RPM[1] * period * intervalsPerRev * interval
           = RPM[2] * 60 * UsPerSecond * Length

C12_Witness ==
  /\ PeriodicInterval /\ Unclamped
  /\ results >= 2 /\ period > bouncePeriod
  /\ preTick >= 1 /\ postTick >= 1

\* The one-second interval of the fan at 1000 RPM is being emitted.
ScenarioResult == pc = "emit" /\ endTime = ScenarioStart + ScenarioInterval

\* C13 as stated: edges at offsets 5000, 20000, ..., 995000 of an interval of
\* 1,000,000 us give ticks = 67, avgTickPeriod about 15000 us (3 units),
\* cycles about 33.5 and RPM about 1005.
C13_HalfRevolutions ==
  ScenarioResult =>
    /\ ticks = 67
    /\ avgTickPeriod[1] = ScenarioPeriod * avgTickPeriod[2]
    /\ 33 * cycles[2] <= cycles[1] /\ cycles[1] <= 34 * cycles[2]
    /\ 1000 * RPM[2] <= RPM[1] /\ RPM[1] <= 1010 * RPM[2]

\* C13 as the code has it (intervalsPerRev = 4): ticks = 67, preTick and
\* postTick 5000 us each (1 unit), avgTickPeriod = 15000 us exactly,
\* cycles = (66 + 2/3) / 4 = 16.67 and RPM = 1000 exactly.
C13_QuarterRevolutions ==
  ScenarioResult =>
    /\ ticks = 67
    /\ preTick = 1 /\ postTick = 1
    /\ avgTickPeriod[2] > 0
    /\ avgTickPeriod[1] = ScenarioPeriod * avgTickPeriod[2]
    /\ cycles[2] > 0 /\ 3 * cycles[1] = 50 * cycles[2]
    /\ RPM[2] > 0 /\ RPM[1] = 1000 * RPM[2]

C13_Witness ==
  /\ ScenarioResult
  /\ ticks = 67 /\ accepted = 68
  /\ end < start

\* The clock can still reach the end of the interval that is waited for.
ClockReaches == endTime + interval <= MaxFairRun

\* C14: the consumer never blocks: whatever edges arrive, a loop() iteration
\* that is waiting for an interval the clock can still complete leaves the
\* busy-wait and produces its result.
C14_NeverBlocks ==
  (pc \in {"loop", "while"} /\ ClockReaches) ~> (pc = "finish")

C14_Witness ==
  /\ pc = "finish" /\ results = 2 /\ endTime + interval > MaxFairRun
  /\ reported = 0 /\ accepted = 0 /\ pending

\* The Width-bit value of a true duration d, -2^Width < d < 2^Width: d itself
\* unless it is negative.
Dur(d) == IF d >= 0 THEN d ELSE d + Mod

\* C15: durations are wraparound-safe: whether or not the counter wrapped in
\* between, the busy-wait exits at the first poll for which the true time since
\* start is interval or more, fanISR rejects an edge iff the true time since
\* lastTick was taken is under bouncePeriod, and firstTickDelay and postTick are
\* the true durations (first tick - end, end - lastTick).
C15_WrapSafe ==
  /\ [][(pc = "while" /\ pc' # pc) =>
          /\ now' = Stamp(time)
          /\ (pc' = "closeMask") <=> (time - endTime >= interval)]_vars
  /\ [][ISRStep => (AcceptStep <=> (time - lastTickTime >= bouncePeriod))]_vars
  /\ [][(AcceptStep /\ ISRTicks = 0) => firstTickDelay' = Dur(time - endTime)]_vars
  /\ [](pc = "closeUnmask" =>
          /\ end = Stamp(endTime) /\ lastTick = Stamp(lastTickTime)
          /\ postTick = Dur(endTime - lastTickTime))

\* The counter wrapped inside the interval, between its first and last tick.
C15_Witness ==
  /\ pc = "closeUnmask"
  /\ end < start /\ lastTick < start
  /\ ticks >= 2 /\ preTick >= 1 /\ postTick >= 1
  /\ Stamp(firstAcceptTime) > start
  /\ lastTickTime <= endTime

\* The critical section of the loop body (lines 123-128).
BodySection == {"bodyRead", "bodyUnmask"}

\* C16 as stated: every critical section in which loop() reads ISRTicks has
\* set ISRTicks = 0 when it re-enables interrupts.
C16_AlwaysResets ==
  pc \in {"bodyUnmask", "closeUnmask"} => ISRTicks = 0

\* C16 as the code has it: loop() reads ISRTicks in two critical sections.
\* The one of the loop body copies it to ticks and leaves it as it is; the
\* closing one resets it, and the result is computed from the value the
\* closing one read.
C16_BodyObserves ==
  /\ [](pc \in BodySection => ~intEnabled)
  /\ [](pc = "bodyUnmask" => ticks = ISRTicks)
  /\ [][(pc \in BodySection) => ISRTicks' = ISRTicks]_vars
  /\ [](pc = "closeUnmask" => (ISRTicks = 0 /\ ticks = snap[1]))
  /\ [](pc = "compute" => ticks = snap[1])

C16_Witness ==
  /\ pc = "bodyUnmask" /\ results >= 1
  /\ ISRTicks >= 1 /\ ticks = ISRTicks

\* C17: fanISR writes nothing but the accumulator: a run of the handler
\* leaves start, end, the locals of loop(), the position of the main program
\* and the interrupt mask as they are.
C17_HandlerFrame ==
  [][ISRStep => UNCHANGED <<start, end, tmp, locals, pc, intEnabled>>]_vars

C17_Witness ==
  /\ pc = "emit" /\ results >= 1
  /\ ticks >= 1 /\ preTick >= 1
  /\ ISRTicks >= 2 /\ lastAcceptTime > endTime
  /\ end # lastTick /\ firstTickDelay # preRaw

\* C18: a rejected edge changes nothing: a run of fanISR that finds
\* now - lastTick < bouncePeriod leaves ISRTicks, firstTickDelay and lastTick
\* unchanged, so the window stays measured from the instant in lastTick: an
\* edge is accepted as soon as that instant is bouncePeriod back, however
\* recent the last rejected edge.
C18_BounceChangesNothing ==
  /\ [][(ISRStep /\ Bounced(Micros)) =>
          /\ UNCHANGED <<ISRTicks, firstTickDelay, lastTick>>
          /\ UNCHANGED <<accepted, lastTickTime, lastAcceptTime>>]_vars
  /\ [][(ISRStep /\ time - lastTickTime >= bouncePeriod) => AcceptStep]_vars

\* The edge latched while the interval was being closed was rejected.
C18_Witness ==
  /\ deferred = "bounced" /\ pc = "compute" /\ ~pending
  /\ ticks >= 1 /\ ISRTicks = 0
  /\ lastTick = snap[3] /\ firstTickDelay = snap[2]
  /\ time > lastTickTime

\* C19: in every extrapolated interval the clamped preTick and postTick are at
\* most avgTickPeriod each, so cycles before the division by intervalsPerRev
\* lies between ticks - 1 and ticks + 1.
C19_CyclesWithinOne ==
  Extrapolating =>
    /\ preTick  * avgTickPeriod[2] <= avgTickPeriod[1]
    /\ postTick * avgTickPeriod[2] <= avgTickPeriod[1]
    /\ cycles[2] > 0
    /\ (ticks - 1) * cycles[2] <= cycles[1] * intervalsPerRev
    /\ cycles[1] * intervalsPerRev <= (ticks + 1) * cycles[2]

\* The snapshot of an interval with two ticks or more has been taken.
SnapshotOfSeveral == pc = "closeUnmask" /\ ticks >= 2

\* end - start - preTick - postTick, as the snapshot has them
Span == Sub(Sub(Sub(end, start), preTick), postTick)

\* C20: for every snapshot with ticks >= 2 the measured span is the time from
\* the interval's first accepted tick to its last, and is (ticks - 1) *
\* bouncePeriod or more; so avgTickPeriod > 0 and cycles is not divided by 0.
C20_SpanPositive ==
  /\ [](SnapshotOfSeveral =>
          /\ Span = lastAcceptTime - firstAcceptTime
          /\ Span >= (ticks - 1) * bouncePeriod)
  /\ [](Extrapolating => (avgTickPeriod[1] > 0 /\ avgTickPeriod[2] > 0))

\* The true time at which the interval being closed started.
StartTime == endTime - Length

\* C21: every tick counted in a snapshot was taken inside the interval: for
\* every snapshot with ticks >= 1 the first counted tick is not earlier than
\* start and the last not later than end, lastTick is not later than end,
\* postTick = end - lastTick is the true time from the last tick to end (no
\* underflow), and preTick + postTick <= end - start.
C21_TicksInsideInterval ==
  (pc = "closeUnmask" /\ ticks >= 1) =>
    /\ StartTime <= firstAcceptTime
    /\ lastAcceptTime <= endTime /\ lastTickTime <= endTime
    /\ postTick = endTime - lastTickTime
    /\ preTick + postTick <= Sub(end, start)

\* fanISR accepts the first tick of an interval.
FirstAcceptStep == AcceptStep /\ ISRTicks = 0

\* The unclamped postTick of the last closed interval, end - lastTick: while
\* ISRTicks = 0, end and lastTick are as its snapshot read them.
ClosedPost == Sub(end, lastTick)

\* C22: partial periods are continuous across a boundary: when an interval
\* with ticks >= 1 is followed by one with ticks >= 1, the unclamped postTick
\* of the earlier plus the unclamped preTick of the later (the firstTickDelay
\* its first tick sets) is the time between the last accepted tick of the
\* earlier and the first accepted tick of the later.
C22_PartialsContinuous ==
  /\ [](pc = "closeUnmask" =>
          (preRaw = firstTickDelay /\ postRaw = ClosedPost))
  /\ [][(FirstAcceptStep /\ closedTicked) =>
          ClosedPost + firstTickDelay' = time - lastAcceptTime]_vars

\* setup() returns: the last store of line 91 is done and loop() is next.
SetupReturns == pc = "setupLastTick" /\ pc' = "loop"

\* The snapshot of the first interval has been taken, with a tick in it.
FirstSnapshot == pc = "closeUnmask" /\ results = 0 /\ ticks >= 1

\* C23: the first interval starts from zeroed counters: when setup() returns
\* and the first loop() iteration begins, ISRTicks = 0 and lastTick = start =
\* end, also when fanISR ran between attachInterrupt() and the stores of
\* "lastTick = start = end = micros()"; and the preTick of the first interval
\* is the time from its own start to its first counted tick.
C23_FirstIntervalZeroed ==
  /\ [][SetupReturns =>
          (ISRTicks' = 0 /\ lastTick' = start' /\ start' = end')]_vars
  /\ [](FirstSnapshot => preTick = firstAcceptTime - StartTime)

====
